---------------------------- MODULE Spec2Model ----------------------------
(***************************************************************************)
(* Bullview: the file parsers (TopologyParser, ConfigurationParser), the   *)
(* topology/configuration reconciliation (DataCombiner) and the            *)
(* periodic-boundary logic of DNARenderer (loadData, shiftParticles,       *)
(* updateParticlePositions).                                               *)
(*                                                                         *)
(* Conventions.  JavaScript arrays are sequences; a 0-based JavaScript     *)
(* index i is element i+1 of the sequence.  Coordinates are integers       *)
(* (exact arithmetic); the only non-finite value the modelled code can     *)
(* produce from such inputs is NaN (remainder by zero), so the displayed   *)
(* coordinates are JavaScript numbers [nan, v].                            *)
(***************************************************************************)
EXTENDS Integers, Sequences, FiniteSets, TLC

VARIABLES
    isRecording,                \* Exporter.isRecording
    mediaRecorder,              \* Exporter.mediaRecorder
    recordedChunks,             \* Exporter.recordedChunks
    autoRotationObserver,       \* Exporter.autoRotationObserver
    recorders,                  \* the MediaRecorder objects created, by state
    sceneObservers,             \* observers in scene.onBeforeRenderObservable
    downloads,                  \* history: videos downloaded
    videos,                     \* the recordVideo calls
    topologyContent,            \* TopologyParser.parse argument
    configContent,              \* ConfigurationParser.parse argument
    topology,                   \* TopologyParser.parse result, DataCombiner.combine argument
    configuration,              \* ConfigurationParser.parse result, DataCombiner.combine argument
    combinedData,               \* DataCombiner.combine result
    console,                    \* console.warn messages of DataCombiner.combine
    data,                       \* DNARenderer.data
    boxOffset,                  \* DNARenderer.boxOffset
    originalParticlePositions,  \* DNARenderer.originalParticlePositions
    nucleotideInstances,        \* DNARenderer.nucleotideInstances
    bondMeshes,                 \* DNARenderer.bondMeshes
    loadedOverOffset,           \* history: the last loadData found boxOffset non-zero
    selectionMeshes,            \* DNARenderer.selectionMeshes (its keys)
    selectedParticles,          \* InteractionManager.selectedParticles
    multiSelectEnabled,         \* InteractionManager.multiSelectEnabled
    selectionInfo,              \* what updateSelectionInfo last wrote, or its TypeError
    shownMessage,               \* the text showMessage last wrote
    handleFilesCall,            \* the running handleFiles call: files left, parse failures
    lastCombine,                \* history: arguments of the last DataCombiner.combine call
    wrapVal,                    \* wrap argument val
    wrapMax,                    \* wrap argument max
    wrapRes                     \* wrap result

parserVars == <<topologyContent, configContent>>
combineVars == <<topology, configuration, combinedData, console>>
rendererVars == <<data, boxOffset, originalParticlePositions,
                  nucleotideInstances, bondMeshes, loadedOverOffset, selectionMeshes>>
interactionVars == <<selectedParticles, multiSelectEnabled, selectionInfo>>
appVars == <<shownMessage, handleFilesCall, lastCombine>>
wrapVars == <<wrapVal, wrapMax, wrapRes>>
exporterVars == <<isRecording, mediaRecorder, recordedChunks, autoRotationObserver,
                  recorders, sceneObservers, downloads, videos>>
vars == <<parserVars, combineVars, rendererVars, wrapVars, interactionVars, appVars,
          exporterVars>>

-----------------------------------------------------------------------------
(* Bounds of the model *)

MaxParticles == 3
MaxConns == 2
MaxOffset == 3
MaxCoord == 6
MaxBox == 4
MaxLines == 4
MaxPatches == 2
MaxTail == 4
MaxLog == 1
MaxRecorders == 2
MaxChunks == 1
MaxVideos == 2

-----------------------------------------------------------------------------
(* JavaScript values *)

null == [null |-> TRUE]

Vector3(x, y, z) == [x |-> x, y |-> y, z |-> z]

Axes == {"x", "y", "z"}

Min(a, b) == IF a < b THEN a ELSE b

Abs(a) == IF a < 0 THEN -a ELSE a

\* Array.prototype.find, given the positions whose elements satisfy the
\* callback: the first such element, else undefined (null stands for
\* undefined: every caller only tests the result for truth).
find(arr, hits) ==
    IF hits = {} THEN null
    ELSE arr[CHOOSE i \in hits : \A j \in hits : i <= j]

\* arr.find(e => e.id === id)
findById(arr, id) == find(arr, { i \in 1 .. Len(arr) : arr[i].id = id })

-----------------------------------------------------------------------------
(* Input documents *)

\* Templates of the README topology.
PatchTemplates ==
    << [id |-> 0, color |-> -21, strength |-> 100, position |-> Vector3(0, 5, 0)],
       [id |-> 1, color |-> 21, strength |-> 100, position |-> Vector3(0, -5, 0)] >>

SpringTemplates ==
    << [id |-> 0, stiffness |-> 100, restLength |-> 1, position |-> Vector3(5, 0, 0)],
       [id |-> 1, stiffness |-> 100, restLength |-> 1, position |-> Vector3(-5, 0, 0)] >>

\* Peer indices a particle row can declare: the blank neighbour -1, indices
\* of rows, and one index no particle has.
PeerIndices == {-1, 0, 1, 2, 99}

\* Spring ids a connection can carry: one with a template, one without.
SpringIndices == {0, 2}

Strands == {0, 1}

ParticleRow(i, strand, connections) ==
    [index |-> i, type |-> -5, strand |-> strand, radius |-> 5, mass |-> 1,
     patches |-> <<0>>, connections |-> connections]

\* At most MaxConns connection declarations of a topology text in file order,
\* each with the 0-based row that declares it.
Declarations(n) ==
    UNION { { d \in [1 .. k -> [owner : 0 .. n - 1, particleIndex : PeerIndices,
                                springIndex : SpringIndices]] :
                \A j \in 1 .. k - 1 : d[j].owner <= d[j + 1].owner } :
            k \in 0 .. MaxConns }

RECURSIVE ConnectionsOf(_, _)
ConnectionsOf(decls, i) ==
    IF decls = <<>> THEN <<>>
    ELSE LET d == Head(decls)
             rest == ConnectionsOf(Tail(decls), i)
         IN IF d.owner = i
            THEN <<[particleIndex |-> d.particleIndex,
                    springIndex |-> d.springIndex]>> \o rest
            ELSE rest

TopologyDocument(strands, decls) ==
    [header |-> [numParticles |-> Len(strands),
                 numStrands |-> Cardinality({strands[i] : i \in 1 .. Len(strands)}),
                 maxSpringsPerParticle |-> 1,
                 repeatedPatchesPerParticle |-> 1],
     patches |-> PatchTemplates,
     springs |-> SpringTemplates,
     particles |-> [i \in 1 .. Len(strands) |->
                       ParticleRow(i - 1, strands[i], ConnectionsOf(decls, i - 1))]]

\* The k-th (0-based) data row of the configuration documents; positions lie
\* inside and outside every box used.
Nucleotide(k) ==
    [index |-> k,
     position |-> Vector3(2 * k - 1, k, 4 - 3 * k),
     baseVector |-> Vector3(1, 0, 0),
     normalVector |-> Vector3(0, 0, 1),
     velocity |-> Vector3(0, 0, 0),
     angularVelocity |-> Vector3(0, 0, 0)]

\* box 0 0 0 is what ConfigurationParser.parse leaves when the text has no
\* `b =` line.
Boxes == { Vector3(0, 0, 0), Vector3(3, 0, 2) }

ConfigurationDocument(m, box) ==
    [timestep |-> 0,
     box |-> box,
     energy |-> [total |-> 0, potential |-> 0, kinetic |-> 0],
     nucleotides |-> [k \in 1 .. m |-> Nucleotide(k - 1)]]

-----------------------------------------------------------------------------
(* DataCombiner.combine *)

\* The map without the filter.
RECURSIVE patchesDataUnfiltered(_, _)
patchesDataUnfiltered(patchIds, patches) ==
    IF patchIds = <<>> THEN <<>>
    ELSE <<findById(patches, Head(patchIds))>>
         \o patchesDataUnfiltered(Tail(patchIds), patches)

\* topoParticle.patches.map(find by id).filter(p => p !== null)
RECURSIVE patchesData(_, _)
patchesData(patchIds, patches) ==
    IF patchIds = <<>> THEN <<>>
    ELSE LET patch == findById(patches, Head(patchIds))
             rest == patchesData(Tail(patchIds), patches)
         IN IF patch /= null THEN <<patch>> \o rest ELSE rest

mergeParticle(i, topoParticle, configNucleotide, patches) ==
    [index |-> i,
     type |-> topoParticle.type,
     strand |-> topoParticle.strand,
     radius |-> topoParticle.radius,
     mass |-> topoParticle.mass,
     patches |-> patchesData(topoParticle.patches, patches),
     connections |-> topoParticle.connections,
     position |-> configNucleotide.position,
     baseVector |-> configNucleotide.baseVector,
     normalVector |-> configNucleotide.normalVector,
     velocity |-> configNucleotide.velocity,
     angularVelocity |-> configNucleotide.angularVelocity]

\* The merge loop stopping one record early.
mergeParticlesButLast(topo, config) ==
    LET count == Min(Len(topo.particles), Len(config.nucleotides))
    IN [i \in 1 .. count - 1 |->
           mergeParticle(i - 1, topo.particles[i], config.nucleotides[i],
                         topo.patches)]

mergeParticles(topo, config) ==
    LET count == Min(Len(topo.particles), Len(config.nucleotides))
    IN [i \in 1 .. count |->
           mergeParticle(i - 1, topo.particles[i], config.nucleotides[i],
                         topo.patches)]

\* The guard with the duplicate test in the declared direction only.
acceptsConnectionDirected(bonds, particle, connection, length) ==
    LET existingBond ==
            find(bonds, { k \in 1 .. Len(bonds) :
                bonds[k].from = particle.index /\ bonds[k].to = connection.particleIndex })
    IN existingBond = null /\ connection.particleIndex < length

\* The guard with the range test off by one.
acceptsConnectionUpTo(bonds, particle, connection, length) ==
    LET existingBond ==
            find(bonds, { k \in 1 .. Len(bonds) :
                \/ (bonds[k].from = particle.index /\ bonds[k].to = connection.particleIndex)
                \/ (bonds[k].from = connection.particleIndex /\ bonds[k].to = particle.index) })
    IN existingBond = null /\ connection.particleIndex <= length

\* The guard of the bond loop: no bond of the same unordered pair yet and
\* the peer index below the merged particle count.
acceptsConnection(bonds, particle, connection, length) ==
    LET existingBond ==
            find(bonds, { k \in 1 .. Len(bonds) :
                \/ (bonds[k].from = particle.index /\ bonds[k].to = connection.particleIndex)
                \/ (bonds[k].from = connection.particleIndex /\ bonds[k].to = particle.index) })
    IN existingBond = null /\ connection.particleIndex < length

\* The push with the ends of the bond exchanged.
addConnectionReversed(bonds, particle, connection, length, springs) ==
    IF acceptsConnection(bonds, particle, connection, length)
    THEN Append(bonds,
                [from |-> connection.particleIndex,
                 to |-> particle.index,
                 spring |-> findById(springs, connection.springIndex)])
    ELSE bonds

\* One iteration of the inner loop over particle.connections.
addConnection(bonds, particle, connection, length, springs) ==
    IF acceptsConnection(bonds, particle, connection, length)
    THEN Append(bonds,
                [from |-> particle.index,
                 to |-> connection.particleIndex,
                 spring |-> findById(springs, connection.springIndex)])
    ELSE bonds

RECURSIVE addConnections(_, _, _, _, _)
addConnections(bonds, particle, connections, length, springs) ==
    IF connections = <<>> THEN bonds
    ELSE addConnections(
             addConnection(bonds, particle, Head(connections), length, springs),
             particle, Tail(connections), length, springs)

\* The outer loop over particles, from the particle at position `from` on.
RECURSIVE createBonds(_, _, _, _)
createBonds(bonds, particles, from, springs) ==
    IF from > Len(particles) THEN bonds
    ELSE createBonds(
             addConnections(bonds, particles[from], particles[from].connections,
                            Len(particles), springs),
             particles, from + 1, springs)

MismatchWarning == "Particle count mismatch"

\* The test that never holds.
mismatchNever(topo, config) == FALSE

\* topology.header.numParticles !== configuration.nucleotides.length
mismatch(topo, config) == topo.header.numParticles /= Len(config.nucleotides)

combine(topo, config) ==
    LET particles == mergeParticles(topo, config)
    IN [particles |-> particles,
        bonds |-> createBonds(<<>>, particles, 1, topo.springs),
        metadata |-> [timestep |-> config.timestep,
                      box |-> config.box,
                      energy |-> config.energy,
                      numStrands |-> topo.header.numStrands]]

-----------------------------------------------------------------------------
(* JavaScript numbers of the displayed coordinates *)

Num(v) == [nan |-> FALSE, v |-> v]

NaN == [nan |-> TRUE, v |-> 0]

\* The % operator on finite operands: the result has the sign of the
\* dividend; a zero divisor gives NaN.
remainder(val, max) ==
    IF max = 0 THEN NaN
    ELSE IF val >= 0 THEN Num(val % Abs(max))
    ELSE Num(-((-val) % Abs(max)))

\* The helper without the step that lifts a negative remainder.
wrapTruncated(val, max) == remainder(val, max)

\* const wrap = (val, max) => { let res = val % max; if (res < 0) res += max; return res; }
\* (NaN < 0 is false, so a NaN remainder is returned as it is.)
wrap(val, max) ==
    LET res == remainder(val, max)
    IN IF ~res.nan /\ res.v < 0 THEN Num(res.v + max) ELSE res

\* Vector3.clone() of a vector of finite coordinates.
clone(v) == Vector3(Num(v.x), Num(v.y), Num(v.z))

Zero == Vector3(0, 0, 0)

-----------------------------------------------------------------------------
(* Text of the input files *)

(***************************************************************************)
(* A file content is the sequence of its lines (content.split('\n'): never *)
(* empty, the empty text is one empty line).  A line is its leading        *)
(* whitespace and its whitespace-separated tokens; a token is a number     *)
(* literal, a token that starts with '#', or any other word.               *)
(***************************************************************************)

num(v) == [num |-> v]

word(s) == [word |-> s]

hash(s) == [hash |-> s]

nums(values) == [i \in 1 .. Len(values) |-> num(values[i])]

text(tokens) == [indent |-> 0, tokens |-> tokens]

indented(tokens) == [indent |-> 2, tokens |-> tokens]

\* line.trim(): the line without its surrounding whitespace.
trim(line) == line.tokens

\* content.split('\n').map(line => line.trim())
trimmedLines(content) == [i \in 1 .. Len(content) |-> trim(content[i])]

\* line.startsWith('#')
startsWithHash(line) == line /= <<>> /\ "hash" \in DOMAIN line[1]

undefined == [undefined |-> TRUE]

\* parts[i], i counted from 0: undefined beyond the array.
at(parts, i) == IF i >= 0 /\ i < Len(parts) THEN parts[i + 1] ELSE undefined

isNumeric(token) == "num" \in DOMAIN token

\* parseInt, parseFloat and Number agree on the tokens above: the value of
\* a number literal, NaN for every other token; parseInt and parseFloat
\* of undefined are NaN.
parseInt(token) == IF isNumeric(token) THEN Num(token.num) ELSE NaN

parseFloat(token) == IF isNumeric(token) THEN Num(token.num) ELSE NaN

Number(token) == IF isNumeric(token) THEN Num(token.num) ELSE NaN

-----------------------------------------------------------------------------
(* TopologyParser.parse *)

\* A test that lets comment lines through.
significantOrComment(line) == line /= <<>>

significant(line) == line /= <<>> /\ ~startsWithHash(line)

\* parts.map(Number)[i]: undefined when the line has no such token.
headerField(parts, i) ==
    IF i < Len(parts) THEN Number(parts[i + 1]) ELSE undefined

parseHeader(parts) ==
    [numParticles |-> headerField(parts, 0),
     numStrands |-> headerField(parts, 1),
     maxSpringsPerParticle |-> headerField(parts, 2),
     repeatedPatchesPerParticle |-> headerField(parts, 3)]

\* The first loop: the header is the first line that is neither empty
\* nor a comment; currentLine ends after it.
RECURSIVE readHeader(_, _)
readHeader(lines, currentLine) ==
    IF currentLine < Len(lines)
    THEN LET line == lines[currentLine + 1]
         IN IF significant(line)
            THEN [header |-> parseHeader(line), currentLine |-> currentLine + 1]
            ELSE readHeader(lines, currentLine + 1)
    ELSE [header |-> null, currentLine |-> currentLine]

parsePatch(parts) ==
    [id |-> parseInt(at(parts, 1)),
     color |-> parseInt(at(parts, 2)),
     strength |-> parseFloat(at(parts, 3)),
     position |-> Vector3(parseFloat(at(parts, 4)), parseFloat(at(parts, 5)),
                          parseFloat(at(parts, 6)))]

parseSpring(parts) ==
    [id |-> parseInt(at(parts, 1)),
     stiffness |-> parseFloat(at(parts, 2)),
     restLength |-> parseFloat(at(parts, 3)),
     position |-> Vector3(parseFloat(at(parts, 4)), parseFloat(at(parts, 5)),
                          parseFloat(at(parts, 6)))]

\* A patch loop that never runs.
iterationsNone(numPatches) == 0

\* Iterations of for (let i = 0; i < numPatches; i++): none when
\* numPatches is NaN or not positive.
iterations(numPatches) ==
    IF numPatches.nan \/ numPatches.v < 0 THEN 0 ELSE numPatches.v

\* particlePatches.push(parseInt(parts[idx++])), idx from 5.
particlePatches(parts, numPatches) ==
    [i \in 1 .. iterations(numPatches) |-> parseInt(at(parts, 5 + i - 1))]

\* The pair loop without its test idx + 1 < parts.length.
RECURSIVE particleConnectionsUnpaired(_, _)
particleConnectionsUnpaired(parts, idx) ==
    IF idx < Len(parts)
    THEN << [particleIndex |-> parseInt(at(parts, idx)),
             springIndex |-> parseInt(at(parts, idx + 1))] >>
         \o particleConnectionsUnpaired(parts, idx + 2)
    ELSE <<>>

\* while (idx < parts.length): pairs (particleIndex, springIndex); a last
\* token without a partner ends the loop.
RECURSIVE particleConnections(_, _)
particleConnections(parts, idx) ==
    IF idx < Len(parts)
    THEN IF idx + 1 < Len(parts)
         THEN << [particleIndex |-> parseInt(at(parts, idx)),
                  springIndex |-> parseInt(at(parts, idx + 1))] >>
              \o particleConnections(parts, idx + 2)
         ELSE <<>>
    ELSE <<>>

\* A particle numbered from 1.
parseParticleFromOne(parts, length) ==
    LET numPatches == parseInt(at(parts, 4))
    IN [index |-> length + 1,
        type |-> parseInt(at(parts, 0)),
        strand |-> parseInt(at(parts, 1)),
        radius |-> parseFloat(at(parts, 2)),
        mass |-> parseFloat(at(parts, 3)),
        patches |-> particlePatches(parts, numPatches),
        connections |-> particleConnections(parts, 5 + iterations(numPatches))]

\* The else branch of the row loop; length is topology.particles.length.
parseParticle(parts, length) ==
    LET numPatches == parseInt(at(parts, 4))
    IN [index |-> length,
        type |-> parseInt(at(parts, 0)),
        strand |-> parseInt(at(parts, 1)),
        radius |-> parseFloat(at(parts, 2)),
        mass |-> parseFloat(at(parts, 3)),
        patches |-> particlePatches(parts, numPatches),
        connections |-> particleConnections(parts, 5 + iterations(numPatches))]

\* One pass of the second loop over a line that is neither empty nor a
\* comment.
parseRow(topo, parts) ==
    IF parts[1] = word("iP")
    THEN [topo EXCEPT !.patches = Append(@, parsePatch(parts))]
    ELSE IF parts[1] = word("iS")
    THEN [topo EXCEPT !.springs = Append(@, parseSpring(parts))]
    ELSE [topo EXCEPT !.particles = Append(@, parseParticle(parts, Len(@)))]

RECURSIVE readRows(_, _, _)
readRows(topo, lines, currentLine) ==
    IF currentLine < Len(lines)
    THEN LET line == lines[currentLine + 1]
         IN readRows(IF significant(line) THEN parseRow(topo, line) ELSE topo,
                     lines, currentLine + 1)
    ELSE topo

Error(message) == [error |-> message]

\* A parse that returns a document without a header instead of throwing.
parseTopologyWithoutThrow(content) ==
    LET lines == trimmedLines(content)
        head == readHeader(lines, 0)
    IN readRows([header |-> head.header, patches |-> <<>>,
                 springs |-> <<>>, particles |-> <<>>],
                lines, head.currentLine)

\* TopologyParser.parse: the document, or the Error it throws.
parseTopology(content) ==
    LET lines == trimmedLines(content)
        head == readHeader(lines, 0)
    IN IF head.header = null
       THEN Error("Invalid topology file: no header found")
       ELSE readRows([header |-> head.header, patches |-> <<>>,
                      springs |-> <<>>, particles |-> <<>>],
                     lines, head.currentLine)

raised(result) == "error" \in DOMAIN result

-----------------------------------------------------------------------------
(* ConfigurationParser.parse *)

MinFields == 15

\* line.startsWith('t ='), 'b =', 'E =': the slot letter and the equals
\* sign are the first two tokens of the trimmed line.
startsWithSlot(line, slot) ==
    Len(line) >= 2 /\ line[1] = word(slot) /\ line[2] = word("=")

\* line.split('=')[1].trim(): the tokens between the first and the second
\* equals sign.
RECURSIVE untilEquals(_)
untilEquals(tokens) ==
    IF tokens = <<>> \/ Head(tokens) = word("=") THEN <<>>
    ELSE <<Head(tokens)>> \o untilEquals(Tail(tokens))

afterEquals(line) == untilEquals(SubSeq(line, 3, Len(line)))

\* split(/\s+/).map(parseFloat) of that string: the empty string still
\* gives one part.
floats(tokens) ==
    IF tokens = <<>> THEN <<NaN>>
    ELSE [i \in 1 .. Len(tokens) |-> parseFloat(tokens[i])]

\* parts[i] of a mapped array.
element(parts, i) == IF i < Len(parts) THEN parts[i + 1] ELSE undefined

defaultConfig ==
    [timestep |-> Num(0),
     box |-> Vector3(Num(0), Num(0), Num(0)),
     energy |-> [total |-> Num(0), potential |-> Num(0), kinetic |-> Num(0)],
     nucleotides |-> <<>>]

\* lines[currentLine].startsWith(...) where lines[currentLine] is
\* undefined.
TypeError == Error("TypeError: Cannot read properties of undefined (reading 'startsWith')")

\* The three header tests; state is the config and the cursor, or the
\* error thrown.
readTimestep(state, lines) ==
    IF raised(state) THEN state
    ELSE IF state.currentLine >= Len(lines) THEN TypeError
    ELSE LET line == lines[state.currentLine + 1]
         IN IF startsWithSlot(line, "t")
            THEN [config |-> [state.config EXCEPT
                                !.timestep = parseInt(at(afterEquals(line), 0))],
                  currentLine |-> state.currentLine + 1]
            ELSE state

readBox(state, lines) ==
    IF raised(state) THEN state
    ELSE IF state.currentLine >= Len(lines) THEN TypeError
    ELSE LET line == lines[state.currentLine + 1]
             boxParts == floats(afterEquals(line))
         IN IF startsWithSlot(line, "b")
            THEN [config |-> [state.config EXCEPT
                                !.box = Vector3(element(boxParts, 0),
                                                element(boxParts, 1),
                                                element(boxParts, 2))],
                  currentLine |-> state.currentLine + 1]
            ELSE state

readEnergy(state, lines) ==
    IF raised(state) THEN state
    ELSE IF state.currentLine >= Len(lines) THEN TypeError
    ELSE LET line == lines[state.currentLine + 1]
             energyParts == floats(afterEquals(line))
         IN IF startsWithSlot(line, "E")
            THEN [config |-> [state.config EXCEPT
                                !.energy = [total |-> element(energyParts, 0),
                                            potential |-> element(energyParts, 1),
                                            kinetic |-> element(energyParts, 2)]],
                  currentLine |-> state.currentLine + 1]
            ELSE state

\* A row test that needs one field more.
acceptsRowAbove(parts) == Len(parts) > MinFields

\* parts.length >= 15
acceptsRow(parts) == Len(parts) >= MinFields

parseNucleotide(parts, length) ==
    [index |-> length,
     position |-> Vector3(parts[1], parts[2], parts[3]),
     baseVector |-> Vector3(parts[4], parts[5], parts[6]),
     normalVector |-> Vector3(parts[7], parts[8], parts[9]),
     velocity |-> Vector3(parts[10], parts[11], parts[12]),
     angularVelocity |-> Vector3(parts[13], parts[14], parts[15])]

RECURSIVE readNucleotides(_, _, _)
readNucleotides(config, lines, currentLine) ==
    IF currentLine < Len(lines)
    THEN LET line == lines[currentLine + 1]
             parts == [i \in 1 .. Len(line) |-> parseFloat(line[i])]
         IN readNucleotides(
                IF significant(line) /\ acceptsRow(parts)
                THEN [config EXCEPT !.nucleotides =
                          Append(@, parseNucleotide(parts, Len(@)))]
                ELSE config,
                lines, currentLine + 1)
    ELSE config

\* ConfigurationParser.parse: the document, or the error it throws.
parseConfiguration(content) ==
    LET lines == trimmedLines(content)
        header == readEnergy(readBox(readTimestep(
                      [config |-> defaultConfig, currentLine |-> 0], lines), lines), lines)
    IN IF raised(header) THEN header
       ELSE readNucleotides(header.config, lines, header.currentLine)

-----------------------------------------------------------------------------
(* DataCombiner.combine on the documents of the parsers *)

(***************************************************************************)
(* The same code as above, over documents whose numbers are JavaScript     *)
(* numbers [nan, v]: === is false for NaN, < is false for NaN.             *)
(***************************************************************************)

\* a === b
strictEquals(a, b) == a = b /\ a /= NaN

\* a < length, for a parsed number a
lessThan(a, length) == ~a.nan /\ a.v < length

\* topology.header.numParticles !== configuration.nucleotides.length
mismatchParsed(topo, config) ==
    ~strictEquals(topo.header.numParticles, Num(Len(config.nucleotides)))

findParsedById(arr, id) ==
    find(arr, { i \in 1 .. Len(arr) : strictEquals(arr[i].id, id) })

RECURSIVE patchesDataParsed(_, _)
patchesDataParsed(patchIds, patches) ==
    IF patchIds = <<>> THEN <<>>
    ELSE LET patch == findParsedById(patches, Head(patchIds))
             rest == patchesDataParsed(Tail(patchIds), patches)
         IN IF patch /= null THEN <<patch>> \o rest ELSE rest

mergeParsedParticles(topo, config) ==
    LET count == Min(Len(topo.particles), Len(config.nucleotides))
    IN [i \in 1 .. count |->
           [index |-> i - 1,
            type |-> topo.particles[i].type,
            strand |-> topo.particles[i].strand,
            radius |-> topo.particles[i].radius,
            mass |-> topo.particles[i].mass,
            patches |-> patchesDataParsed(topo.particles[i].patches, topo.patches),
            connections |-> topo.particles[i].connections,
            position |-> config.nucleotides[i].position,
            baseVector |-> config.nucleotides[i].baseVector,
            normalVector |-> config.nucleotides[i].normalVector,
            velocity |-> config.nucleotides[i].velocity,
            angularVelocity |-> config.nucleotides[i].angularVelocity]]

acceptsParsedConnection(bonds, particle, connection, length) ==
    LET existingBond ==
            find(bonds, { k \in 1 .. Len(bonds) :
                \/ /\ bonds[k].from = particle.index
                   /\ strictEquals(bonds[k].to, connection.particleIndex)
                \/ /\ strictEquals(Num(bonds[k].from), connection.particleIndex)
                   /\ strictEquals(bonds[k].to, Num(particle.index)) })
    IN existingBond = null /\ lessThan(connection.particleIndex, length)

addParsedConnection(bonds, particle, connection, length, springs) ==
    IF acceptsParsedConnection(bonds, particle, connection, length)
    THEN Append(bonds,
                [from |-> particle.index,
                 to |-> connection.particleIndex,
                 spring |-> findParsedById(springs, connection.springIndex)])
    ELSE bonds

RECURSIVE addParsedConnections(_, _, _, _, _)
addParsedConnections(bonds, particle, connections, length, springs) ==
    IF connections = <<>> THEN bonds
    ELSE addParsedConnections(
             addParsedConnection(bonds, particle, Head(connections), length, springs),
             particle, Tail(connections), length, springs)

RECURSIVE createParsedBonds(_, _, _, _)
createParsedBonds(bonds, particles, from, springs) ==
    IF from > Len(particles) THEN bonds
    ELSE createParsedBonds(
             addParsedConnections(bonds, particles[from], particles[from].connections,
                                  Len(particles), springs),
             particles, from + 1, springs)

\* combine reads topology.header.numParticles first: a TypeError when the
\* header is null.
combineParsed(topo, config) ==
    IF topo.header = null
    THEN Error("TypeError: Cannot read properties of null (reading 'numParticles')")
    ELSE LET particles == mergeParsedParticles(topo, config)
         IN [particles |-> particles,
             bonds |-> createParsedBonds(<<>>, particles, 1, topo.springs),
             metadata |-> [timestep |-> config.timestep,
                           box |-> config.box,
                           energy |-> config.energy,
                           numStrands |-> topo.header.numStrands]]

-----------------------------------------------------------------------------
(* From the parsers to DataCombiner.combine *)

(***************************************************************************)
(* visualize hands the parsed documents to combine.  combine is modelled   *)
(* over documents whose numbers are integers; a parsed document whose      *)
(* numbers are all finite is the same document with every number [nan, v]  *)
(* written as v.                                                           *)
(***************************************************************************)

vectorValues(vector) == Vector3(vector.x.v, vector.y.v, vector.z.v)

topologyValues(topo) ==
    [header |-> [numParticles |-> topo.header.numParticles.v,
                 numStrands |-> topo.header.numStrands.v,
                 maxSpringsPerParticle |-> topo.header.maxSpringsPerParticle.v,
                 repeatedPatchesPerParticle |-> topo.header.repeatedPatchesPerParticle.v],
     patches |-> [i \in 1 .. Len(topo.patches) |->
                     [id |-> topo.patches[i].id.v,
                      color |-> topo.patches[i].color.v,
                      strength |-> topo.patches[i].strength.v,
                      position |-> vectorValues(topo.patches[i].position)]],
     springs |-> [i \in 1 .. Len(topo.springs) |->
                     [id |-> topo.springs[i].id.v,
                      stiffness |-> topo.springs[i].stiffness.v,
                      restLength |-> topo.springs[i].restLength.v,
                      position |-> vectorValues(topo.springs[i].position)]],
     particles |-> [i \in 1 .. Len(topo.particles) |->
                     [index |-> topo.particles[i].index,
                      type |-> topo.particles[i].type.v,
                      strand |-> topo.particles[i].strand.v,
                      radius |-> topo.particles[i].radius.v,
                      mass |-> topo.particles[i].mass.v,
                      patches |-> [j \in 1 .. Len(topo.particles[i].patches) |->
                                      topo.particles[i].patches[j].v],
                      connections |->
                          [j \in 1 .. Len(topo.particles[i].connections) |->
                              [particleIndex |->
                                   topo.particles[i].connections[j].particleIndex.v,
                               springIndex |->
                                   topo.particles[i].connections[j].springIndex.v]]]]]

configurationValues(config) ==
    [timestep |-> config.timestep.v,
     box |-> vectorValues(config.box),
     energy |-> [total |-> config.energy.total.v,
                 potential |-> config.energy.potential.v,
                 kinetic |-> config.energy.kinetic.v],
     nucleotides |-> [k \in 1 .. Len(config.nucleotides) |->
                         [index |-> config.nucleotides[k].index,
                          position |-> vectorValues(config.nucleotides[k].position),
                          baseVector |-> vectorValues(config.nucleotides[k].baseVector),
                          normalVector |-> vectorValues(config.nucleotides[k].normalVector),
                          velocity |-> vectorValues(config.nucleotides[k].velocity),
                          angularVelocity |->
                              vectorValues(config.nucleotides[k].angularVelocity)]]]

-----------------------------------------------------------------------------
(* DNARenderer *)

\* Object.keys(strandGroups): strand ids are non-negative integers, which
\* an object enumerates in ascending numeric order.
RECURSIVE ascending(_)
ascending(S) ==
    IF S = {} THEN <<>>
    ELSE LET m == CHOOSE a \in S : \A b \in S : a <= b
         IN <<m>> \o ascending(S \ {m})

strandKeys(particles) ==
    ascending({ particles[i].strand : i \in 1 .. Len(particles) })

\* metadata.particle is a reference to the particle of the loaded graph; the
\* renderer reads only its index, which identifies it.
createInstance(particle) ==
    [position |-> clone(particle.position),
     scaling |-> particle.radius,
     metadata |-> [particle |-> [index |-> particle.index]]]

\* The instances of the strand groups from key number k on, in push order.
RECURSIVE strandInstances(_, _, _)
strandInstances(particles, keys, k) ==
    IF k > Len(keys) THEN <<>>
    ELSE LET strandParticles == SelectSeq(particles, LAMBDA p : p.strand = keys[k])
         IN [i \in 1 .. Len(strandParticles) |-> createInstance(strandParticles[i])]
            \o strandInstances(particles, keys, k + 1)

renderNucleotides(instances, particles) ==
    IF Len(particles) = 0 THEN instances
    ELSE instances \o strandInstances(particles, strandKeys(particles), 1)

\* particles[i] of a JavaScript array: undefined outside 0 .. length-1.
defined(particles, i) == i >= 0 /\ i < Len(particles)

RECURSIVE bondPoints(_, _)
bondPoints(bonds, particles) ==
    IF bonds = <<>> THEN <<>>
    ELSE LET bond == Head(bonds)
             rest == bondPoints(Tail(bonds), particles)
         IN IF defined(particles, bond.from) /\ defined(particles, bond.to)
            THEN << <<clone(particles[bond.from + 1].position),
                      clone(particles[bond.to + 1].position)>> >> \o rest
            ELSE rest

\* renderBonds pushes two line systems built from the same points.
renderBonds(meshes, bonds, particles) ==
    IF Len(bonds) = 0 THEN meshes
    ELSE LET points == bondPoints(bonds, particles)
         IN IF Len(points) > 0
            THEN meshes \o << [lines |-> points], [lines |-> points] >>
            ELSE meshes

\* The forEach over nucleotideInstances of updateParticlePositions:
\* instance number i takes originalParticlePositions[i].
updateInstance(instance, originalPos, offset, box) ==
    [instance EXCEPT !.position =
        Vector3(wrap(originalPos.x + offset.x, box.x),
                wrap(originalPos.y + offset.y, box.y),
                wrap(originalPos.z + offset.z, box.z))]

updateInstances(instances, originals, offset, box) ==
    [i \in 1 .. Len(instances) |->
        updateInstance(instances[i], originals[i], offset, box)]

findInstance(instances, particleIndex) ==
    find(instances, { k \in 1 .. Len(instances) :
                        instances[k].metadata.particle.index = particleIndex })

RECURSIVE instancePoints(_, _)
instancePoints(bonds, instances) ==
    IF bonds = <<>> THEN <<>>
    ELSE LET fromParticle == findInstance(instances, Head(bonds).from)
             toParticle == findInstance(instances, Head(bonds).to)
             rest == instancePoints(Tail(bonds), instances)
         IN IF fromParticle /= null /\ toParticle /= null
            THEN << <<fromParticle.position, toParticle.position>> >> \o rest
            ELSE rest

\* The bond part leaving the line systems as they were.
updateBondMeshesStale(meshes, bonds, instances) == meshes

\* The bond part of updateParticlePositions: with a line system present,
\* all are disposed and one is rebuilt from the instance positions.
updateBondMeshes(meshes, bonds, instances) ==
    IF Len(meshes) > 0
    THEN LET points == instancePoints(bonds, instances)
         IN IF Len(points) > 0 THEN << [lines |-> points] >> ELSE <<>>
    ELSE meshes

\* The update as it would act were instance.position the particle's own
\* Vector3 instead of a clone: finite coordinates land in the graph too.
updateParticlePositionsShared(offset) ==
    LET instances == updateInstances(nucleotideInstances, originalParticlePositions,
                                     offset, data.metadata.box)
        written(old, new) ==
            Vector3(IF new.x.nan THEN old.x ELSE new.x.v,
                    IF new.y.nan THEN old.y ELSE new.y.v,
                    IF new.z.nan THEN old.z ELSE new.z.v)
    IN /\ nucleotideInstances' = instances
       /\ bondMeshes' = updateBondMeshes(bondMeshes, data.bonds, instances)
       /\ data' = [data EXCEPT !.particles =
                      [i \in 1 .. Len(data.particles) |->
                          [data.particles[i] EXCEPT !.position =
                              written(@, findInstance(instances, i - 1).position)]]]
       /\ UNCHANGED <<originalParticlePositions, selectionMeshes>>

updateParticlePositions(offset) ==
    LET instances == updateInstances(nucleotideInstances, originalParticlePositions,
                                     offset, data.metadata.box)
    IN /\ nucleotideInstances' = instances
       /\ bondMeshes' = updateBondMeshes(bondMeshes, data.bonds, instances)
       \* instance.position is a clone: the writes reach neither the graph
       \* nor the snapshot.
       /\ UNCHANGED <<data, originalParticlePositions, selectionMeshes>>

addAmount(offset, axis, amount) ==
    [x |-> IF axis = "x" THEN offset.x + amount ELSE offset.x,
     y |-> IF axis = "y" THEN offset.y + amount ELSE offset.y,
     z |-> IF axis = "z" THEN offset.z + amount ELSE offset.z]

shiftParticles(axis, amount) ==
    IF data = null
    THEN UNCHANGED rendererVars
    ELSE /\ boxOffset' = addAmount(boxOffset, axis, amount)
         /\ updateParticlePositions(boxOffset')
         /\ UNCHANGED loadedOverOffset

snapshot(particles) == [i \in 1 .. Len(particles) |-> particles[i].position]

\* loadData without the offset reset.
loadDataKeepingOffset(combined) ==
    /\ data' = combined
    /\ boxOffset' = boxOffset
    /\ originalParticlePositions' = snapshot(combined.particles)
    /\ nucleotideInstances' = renderNucleotides(<<>>, combined.particles)
    /\ bondMeshes' = renderBonds(<<>>, combined.bonds, combined.particles)
    /\ loadedOverOffset' = (boxOffset /= Zero)
    /\ selectionMeshes' = {}

loadData(combined) ==
    /\ data' = combined
    /\ boxOffset' = Zero
    /\ originalParticlePositions' = snapshot(combined.particles)
    /\ nucleotideInstances' = renderNucleotides(<<>>, combined.particles)
    /\ bondMeshes' = renderBonds(<<>>, combined.bonds, combined.particles)
    /\ loadedOverOffset' = (boxOffset /= Zero)
    /\ selectionMeshes' = {}

-----------------------------------------------------------------------------
(* InteractionManager and the highlight meshes of DNARenderer *)

(***************************************************************************)
(* selectionMeshes is the set of keys of the Map; selectedParticles is the *)
(* Set.  A selection state is the three values the handlers below write.   *)
(***************************************************************************)

\* DNARenderer.highlightNucleotide
highlightNucleotide(meshes, instances, particleIndex, highlight) ==
    IF ~highlight THEN meshes \ {particleIndex}
    ELSE IF particleIndex \in meshes THEN meshes
    ELSE IF findInstance(instances, particleIndex) /= null
         THEN meshes \cup {particleIndex}
         ELSE meshes

\* DNARenderer.pickParticle: the particles a pick can return, and null.
pickable(instances) ==
    { instances[k].metadata.particle : k \in 1 .. Len(instances) } \cup {null}

\* DNAVisualizerApp.updateSelectionInfo: what the selection panel shows,
\* or the TypeError of reading particle.index of undefined.
updateSelectionInfo(selectedIndices, combined) ==
    IF selectedIndices = {} THEN [shown |-> {}]
    ELSE IF combined = null
    THEN Error("TypeError: Cannot read properties of null (reading 'particles')")
    ELSE IF \E idx \in selectedIndices : idx < 0 \/ idx >= Len(combined.particles)
    THEN Error("TypeError: Cannot read properties of undefined (reading 'index')")
    ELSE [shown |-> selectedIndices]

selectParticle(s, particleIndex, instances, combined) ==
    [selectedParticles |-> s.selectedParticles \cup {particleIndex},
     selectionMeshes |->
         highlightNucleotide(s.selectionMeshes, instances, particleIndex, TRUE),
     selectionInfo |->
         updateSelectionInfo(s.selectedParticles \cup {particleIndex}, combined)]

deselectParticle(s, particleIndex, instances, combined) ==
    [selectedParticles |-> s.selectedParticles \ {particleIndex},
     selectionMeshes |->
         highlightNucleotide(s.selectionMeshes, instances, particleIndex, FALSE),
     selectionInfo |->
         updateSelectionInfo(s.selectedParticles \ {particleIndex}, combined)]

\* Unhighlights every member, whatever the order of the forEach.
RECURSIVE unhighlightAll(_, _, _)
unhighlightAll(meshes, instances, indices) ==
    IF indices = {} THEN meshes
    ELSE LET index == CHOOSE i \in indices : TRUE
         IN unhighlightAll(highlightNucleotide(meshes, instances, index, FALSE),
                           instances, indices \ {index})

clearSelection(s, instances) ==
    [selectedParticles |-> {},
     selectionMeshes |-> unhighlightAll(s.selectionMeshes, instances, s.selectedParticles),
     selectionInfo |-> [shown |-> {}]]

\* A click in multi-select mode that also clears on an empty pick.
handleClickClearing(s, particle, multiSelect, instances, combined) ==
    IF particle /= null
    THEN IF multiSelect
         THEN IF particle.index \in s.selectedParticles
              THEN deselectParticle(s, particle.index, instances, combined)
              ELSE selectParticle(s, particle.index, instances, combined)
         ELSE selectParticle(clearSelection(s, instances), particle.index,
                             instances, combined)
    ELSE clearSelection(s, instances)

\* InteractionManager.handleClick, particle being the result of pickParticle.
handleClick(s, particle, multiSelect, instances, combined) ==
    IF particle /= null
    THEN IF multiSelect
         THEN IF particle.index \in s.selectedParticles
              THEN deselectParticle(s, particle.index, instances, combined)
              ELSE selectParticle(s, particle.index, instances, combined)
         ELSE selectParticle(clearSelection(s, instances), particle.index,
                             instances, combined)
    ELSE IF ~multiSelect THEN clearSelection(s, instances) ELSE s

\* The forEach of selectByStrand from particle number `from` on; a throw of
\* the selection callback ends it.
RECURSIVE selectStrandFrom(_, _, _, _, _, _)
selectStrandFrom(s, particles, from, strandId, instances, combined) ==
    IF from > Len(particles) \/ raised(s.selectionInfo) THEN s
    ELSE selectStrandFrom(
             IF particles[from].strand = strandId
             THEN selectParticle(s, particles[from].index, instances, combined)
             ELSE s,
             particles, from + 1, strandId, instances, combined)

\* InteractionManager.selectByStrand, graph being renderer.data.
selectByStrand(s, strandId, graph, instances, combined) ==
    IF graph = null THEN s
    ELSE selectStrandFrom(clearSelection(s, instances), graph.particles, 1,
                          strandId, instances, combined)

-----------------------------------------------------------------------------
(* DNAVisualizerApp *)

\* Either document is held.
eitherLoaded(topo, config) == topo /= null \/ config /= null

\* this.topologyData && this.configurationData
bothLoaded(topo, config) == topo /= null /\ config /= null

\* visualize with topologyData = topo and configurationData = config;
\* combine on a null document throws inside the try.  lastCombine records
\* which arguments of the last call of combine were documents.
visualize(topo, config) ==
    /\ (topo /= null /\ config /= null /\ mismatch(topo, config))
       => Len(console) < MaxLog
    /\ lastCombine' = [topology |-> topo /= null, configuration |-> config /= null]
    /\ IF topo = null \/ config = null
       THEN /\ shownMessage' = "Error visualizing"
            /\ UNCHANGED <<combinedData, console, rendererVars>>
       ELSE /\ combinedData' = combine(topo, config)
            /\ console' = IF mismatch(topo, config)
                          THEN Append(console, MismatchWarning)
                          ELSE console
            /\ loadData(combine(topo, config))
            /\ shownMessage' = "DNA structure loaded successfully!"

\* The end of handleFiles, after the loop over the files: shown is the
\* message the loop left.
finishHandleFiles(topo, config, failed, shown) ==
    /\ handleFilesCall' = [files |-> <<>>, failed |-> failed,
                           visualized |-> bothLoaded(topo, config)]
    /\ IF bothLoaded(topo, config)
       THEN visualize(topo, config)
       ELSE /\ shownMessage' = shown
            /\ UNCHANGED <<combinedData, console, rendererVars, lastCombine>>

\* handleFiles(files) up to its first await; with no file it runs to its
\* end.
startHandleFiles(files) ==
    /\ UNCHANGED <<topology, configuration>>
    /\ IF files = <<>>
       THEN finishHandleFiles(topology, configuration, {}, shownMessage)
       ELSE /\ handleFilesCall' = [files |-> files, failed |-> {}, visualized |-> FALSE]
            /\ UNCHANGED <<combinedData, console, rendererVars, shownMessage, lastCombine>>

\* One pass of the loop of handleFiles, from the content of the file to
\* the next await or to the end of handleFiles.
handleFile(file, rest, failed) ==
    LET result == IF file.ext = "psp" THEN parseTopology(file.content)
                  ELSE IF file.ext = "dat" THEN parseConfiguration(file.content)
                  ELSE null
        topo == IF file.ext = "psp" /\ ~raised(result)
                THEN topologyValues(result) ELSE topology
        config == IF file.ext = "dat" /\ ~raised(result)
                  THEN configurationValues(result) ELSE configuration
        nowFailed == IF raised(result) THEN failed \cup {file.ext} ELSE failed
        shown == IF raised(result) THEN "Error parsing"
                 ELSE IF file.ext = "psp" THEN "Loaded topology"
                 ELSE IF file.ext = "dat" THEN "Loaded configuration"
                 ELSE shownMessage
    IN /\ topology' = topo
       /\ configuration' = config
       /\ IF rest = <<>>
          THEN finishHandleFiles(topo, config, nowFailed, shown)
          ELSE /\ handleFilesCall' = [files |-> rest, failed |-> nowFailed,
                                      visualized |-> FALSE]
               /\ shownMessage' = shown
               /\ UNCHANGED <<combinedData, console, rendererVars, lastCombine>>

\* loadExampleFiles from the two fetched texts on: a throw of either parse
\* skips the rest.
loadExampleFiles(topologyText, configText) ==
    LET topo == parseTopology(topologyText)
        config == parseConfiguration(configText)
    IN IF raised(topo)
       THEN /\ shownMessage' = "Failed to load example files. Please use drag and drop."
            /\ UNCHANGED <<topology, configuration, combinedData, console,
                           rendererVars, lastCombine>>
       ELSE /\ topology' = topologyValues(topo)
            /\ IF raised(config)
               THEN /\ shownMessage' =
                           "Failed to load example files. Please use drag and drop."
                    /\ UNCHANGED <<configuration, combinedData, console,
                                   rendererVars, lastCombine>>
               ELSE /\ configuration' = configurationValues(config)
                    /\ visualize(topologyValues(topo), configurationValues(config))

-----------------------------------------------------------------------------
(* Exporter.  x is the exporter with its environment: the fields
   isRecording, mediaRecorder, recordedChunks and autoRotationObserver, the
   MediaRecorder objects created so far (recorders, by state) and the
   number of observers registered in the scene (sceneObservers).
   mediaRecorder is null or the created recorder with its onstop handler,
   named by the call of stopRecording that installed it. *)

\* What the browser does in startRecording: it records, or captureStream
\* or the MediaRecorder constructor throws, or MediaRecorder.start throws.
Browsers == {"records", "constructor throws", "start throws"}

startAutoRotation(x) ==
    [x EXCEPT !.autoRotationObserver = [observer |-> TRUE],
              !.sceneObservers = @ + 1]

stopAutoRotation(x) ==
    IF x.autoRotationObserver /= null
    THEN [x EXCEPT !.autoRotationObserver = null, !.sceneObservers = @ - 1]
    ELSE x

\* startRecording from the try on.
record(x, options, browser) ==
    IF browser = "constructor throws"
    THEN [x |-> [x EXCEPT !.recordedChunks = <<>>], returned |-> FALSE]
    ELSE LET id == Len(x.recorders) + 1
             created == [x EXCEPT !.recordedChunks = <<>>,
                                  !.mediaRecorder = [id |-> id, onstop |-> null],
                                  !.recorders = Append(@, "inactive")]
             started == [created EXCEPT !.recorders[id] = "recording",
                                        !.isRecording = TRUE]
         IN IF browser = "start throws"
            THEN [x |-> created, returned |-> FALSE]
            ELSE [x |-> IF options.autoRotate THEN startAutoRotation(started)
                        ELSE started,
                  returned |-> TRUE]

\* startRecording without the test of isRecording.
startRecordingAnyway(x, options, browser) == record(x, options, browser)

startRecording(x, options, browser) ==
    IF x.isRecording THEN [x |-> x, returned |-> FALSE]
    ELSE record(x, options, browser)

\* stopRecording called by caller: it returns false, or it installs the
\* onstop handler and calls MediaRecorder.stop, and its promise is pending
\* (or rejected, where stop throws on a recorder that is not recording).
stopRecording(x, caller, throws) ==
    IF ~x.isRecording THEN [x |-> x, returned |-> "false"]
    ELSE LET id == x.mediaRecorder.id
             handled == [x EXCEPT !.mediaRecorder.onstop = caller]
         IN IF x.recorders[id] = "recording"
            THEN [x |-> [handled EXCEPT !.recorders[id] = "stopping"],
                  returned |-> "pending"]
            ELSE [x |-> handled,
                  returned |-> IF throws THEN "rejected" ELSE "pending"]

\* The onstop handler installed by stopRecording, on the stop event of the
\* recorder.
onstop(x) ==
    stopAutoRotation([x EXCEPT !.recorders[x.mediaRecorder.id] = "inactive",
                               !.isRecording = FALSE,
                               !.mediaRecorder = null,
                               !.recordedChunks = <<>>])

-----------------------------------------------------------------------------
(* Inputs of the renderer runs *)

\* Neighbour declarations in the manner of the README body: a chain
\* 0-1, 1-2, ..., alone or after a blank neighbour (-1) declared by row 0.
chain(n) ==
    [k \in 1 .. n - 1 |-> [owner |-> k - 1, particleIndex |-> k, springIndex |-> 0]]

blank == << [owner |-> 0, particleIndex |-> -1, springIndex |-> 0] >>

\* Strand assignments of n rows in file order; the first row is on strand 0.
StrandAssignments(n) ==
    { strands \in [1 .. n -> Strands] : n > 0 => strands[1] = 0 }

RenderTopologies ==
    UNION { { TopologyDocument(strands, d) :
                strands \in StrandAssignments(n), d \in {chain(n), blank \o chain(n)} } :
            n \in 0 .. MaxParticles }

RenderConfigurations ==
    { ConfigurationDocument(MaxParticles, box) : box \in Boxes }

\* What loadData is called with: the combiner's output (visualize).
RenderGraphs ==
    { combine(topo, config) : topo \in RenderTopologies, config \in RenderConfigurations }

AxisInputs == Axes \cup {"w"}

Amounts == {-1, 2, 3}

withinBound(offset) == Abs(offset.x) + Abs(offset.y) + Abs(offset.z) <= MaxOffset

-----------------------------------------------------------------------------
(* Inputs of the parser runs *)

\* The topology of the README, line by line.
ReadmeTopology ==
    << text(nums(<<4, 2, 1, 1>>)),
       text(<<hash("#"), word("Header")>>),
       text(<<>>),
       text(<<hash("#"), word("iP")>>),
       text(<<>>),
       text(<<word("iP")>> \o nums(<<0, -21, 100, 0, 5, 0>>)),
       text(<<word("iP")>> \o nums(<<1, 21, 100, 0, -5, 0>>)),
       text(<<>>),
       text(<<hash("#"), word("iS")>>),
       text(<<>>),
       text(<<word("iS")>> \o nums(<<0, 100, 1, 5, 0, 0>>)),
       text(<<word("iS")>> \o nums(<<1, 100, 1, -5, 0, 0>>)),
       text(<<>>),
       text(<<hash("#"), word("Body")>>),
       text(<<hash("#"), word("Color")>>),
       text(<<>>),
       text(nums(<<-5, 0, 5, 1, 1, 0, 1, 0>>)),
       text(nums(<<-5, 0, 5, 1, 1, 0, 0, 1, 2, 0>>)),
       text(nums(<<-5, 0, 5, 1, 1, 0, 1, 1>>)),
       text(nums(<<-5, 1, 5, 1, 1, 1>>)) >>

\* The lines the topology texts are made of: lines of the README, and
\* lines that differ from them only by surrounding whitespace.
TopologyLines ==
    { ReadmeTopology[1], ReadmeTopology[2], ReadmeTopology[3],
      indented(<<>>), indented(<<hash("#"), word("Body")>>),
      ReadmeTopology[6], ReadmeTopology[11],
      ReadmeTopology[17], ReadmeTopology[20] }

\* Tokens after the numPatches token of a particle row.
TailTokens == {0, 1, 2}

Tails == UNION { [1 .. n -> TailTokens] : n \in 0 .. MaxTail }

\* Particle rows of every length: the four leading fields cut short, or
\* the five leading fields and a tail.
ParticleRows ==
    { nums(SubSeq(<<-5, 0, 5, 1>>, 1, n)) : n \in 1 .. 4 }
    \cup { nums(<<-5, 0, 5, 1, p>> \o tail) :
             p \in -1 .. MaxPatches, tail \in Tails }

\* A data row of a configuration file: fields counted from k.
fields(k, n) == nums([i \in 1 .. n |-> k + i - 1])

\* The lines the configuration texts are made of.
ConfigLines ==
    { text(<<word("t"), word("=")>> \o nums(<<7>>)),
      text(<<word("b"), word("=")>> \o nums(<<10, 10, 10>>)),
      text(<<word("E"), word("=")>> \o nums(<<3, 2, 1>>)),
      text(<<hash("#"), word("row")>>),
      text(<<>>),
      text(fields(1, MinFields - 1)),
      text(fields(2, MinFields)),
      indented(fields(3, MinFields + 1)) }

\* Particle rows whose patch ids do and do not name a patch row of the
\* README: 1 7 0, then 7 7, then 0 with a connection to particle 0.
PatchedRows ==
    { text(nums(<<-5, 0, 5, 1, 3, 1, 7, 0>>)),
      text(nums(<<-5, 0, 5, 1, 2, 7, 7>>)),
      text(nums(<<-5, 1, 5, 1, 1, 0, 0, 1>>)) }

\* The README topology, and its header, patch rows and spring rows
\* followed by such particle rows.
ExampleTopologies ==
    { ReadmeTopology }
    \cup UNION { { SubSeq(ReadmeTopology, 1, 12) \o rows :
                     rows \in [1 .. n -> PatchedRows] } : n \in 1 .. MaxParticles }

\* A configuration text with the three header lines, box 10 10 10, and m
\* rows of 15 fields.
ExampleConfiguration(m) ==
    << text(<<word("t"), word("=")>> \o nums(<<7>>)),
       text(<<word("b"), word("=")>> \o nums(<<10, 10, 10>>)),
       text(<<word("E"), word("=")>> \o nums(<<3, 2, 1>>)) >>
    \o [k \in 1 .. m |-> text(fields(k, MinFields))]

\* Topology texts of the application runs: a header for n particles, the
\* patch rows and spring rows of the README and its first n particle rows
\* out of two (one per strand); and a text without a header.
AppTopology(n) ==
    << text(nums(<<n, 2, 1, 1>>)) >>
    \o SubSeq(ReadmeTopology, 2, 12)
    \o SubSeq(<<ReadmeTopology[17], ReadmeTopology[20]>>, 1, n)

NoHeader == << text(<<hash("#"), word("Header")>>) >>

\* A configuration text that ends with its t line.
OnlyTimestep == << text(<<word("t"), word("=")>> \o nums(<<7>>)) >>

AppTopologies == { AppTopology(1), AppTopology(2), NoHeader }

AppConfigurations == { ExampleConfiguration(2), OnlyTimestep }

\* The files a drop can carry: extension and content.
AppFiles ==
    { [ext |-> "psp", content |-> content] : content \in AppTopologies }
    \cup { [ext |-> "dat", content |-> content] : content \in AppConfigurations }

Drops == UNION { [1 .. n -> AppFiles] : n \in 0 .. 2 }

-----------------------------------------------------------------------------
(* Specifications *)

parserIdle == topologyContent = <<>> /\ configContent = <<>>

combineIdle ==
    topology = null /\ configuration = null /\ combinedData = null /\ console = <<>>

rendererIdle ==
    /\ data = null
    /\ boxOffset = Zero
    /\ originalParticlePositions = <<>>
    /\ nucleotideInstances = <<>>
    /\ bondMeshes = <<>>
    /\ loadedOverOffset = FALSE
    /\ selectionMeshes = {}

wrapIdle == wrapVal = 0 /\ wrapMax = 0 /\ wrapRes = null

interactionIdle ==
    selectedParticles = {} /\ multiSelectEnabled = FALSE /\ selectionInfo = [shown |-> {}]

\* No handleFiles call is suspended.
noCall == [files |-> <<>>, failed |-> {}, visualized |-> FALSE]

exporterIdle ==
    /\ isRecording = FALSE
    /\ mediaRecorder = null
    /\ recordedChunks = <<>>
    /\ autoRotationObserver = null
    /\ recorders = <<>>
    /\ sceneObservers = 0
    /\ downloads = 0
    /\ videos = <<>>

appIdle == shownMessage = "" /\ handleFilesCall = noCall /\ lastCombine = null

\* The renderer after construction; structures are loaded and shifted.
Init == parserIdle /\ combineIdle /\ rendererIdle /\ wrapIdle /\ interactionIdle /\ appIdle /\ exporterIdle

LoadData ==
    /\ \E combined \in RenderGraphs : loadData(combined)
    /\ UNCHANGED <<parserVars, combineVars, wrapVars, interactionVars, appVars, exporterVars>>

ShiftParticles ==
    /\ \E axis \in AxisInputs, amount \in Amounts :
           /\ withinBound(addAmount(boxOffset, axis, amount))
           /\ shiftParticles(axis, amount)
    /\ UNCHANGED <<parserVars, combineVars, wrapVars, interactionVars, appVars, exporterVars>>

Next == LoadData \/ ShiftParticles

Spec == Init /\ [][Next]_vars

\* DataCombiner.combine applied to a pair of documents.
InitCombine ==
    /\ \/ /\ \E n \in 0 .. MaxParticles :
                 \E d \in Declarations(n) :
                     topology = TopologyDocument([i \in 1 .. n |-> 0], d)
          /\ \E m \in 0 .. MaxParticles :
                 configuration = ConfigurationDocument(m, Vector3(3, 0, 2))
          /\ parserIdle
       \/ /\ topologyContent \in ExampleTopologies
          /\ \E m \in 0 .. MaxParticles + 1 : configContent = ExampleConfiguration(m)
          /\ topology = topologyValues(parseTopology(topologyContent))
          /\ configuration = configurationValues(parseConfiguration(configContent))
    /\ combinedData = null /\ console = <<>>
    /\ rendererIdle /\ wrapIdle /\ interactionIdle /\ appIdle /\ exporterIdle

Combine ==
    /\ combinedData = null
    /\ combinedData' = combine(topology, configuration)
    /\ console' = IF mismatch(topology, configuration)
                  THEN Append(console, MismatchWarning)
                  ELSE console
    /\ UNCHANGED <<parserVars, topology, configuration, rendererVars, wrapVars, interactionVars, appVars, exporterVars>>

NextCombine == Combine

SpecCombine == InitCombine /\ [][NextCombine]_vars

\* The wrap helper applied to a value and a box length.
InitWrap ==
    /\ wrapVal \in -MaxCoord .. MaxCoord
    /\ wrapMax \in 0 .. MaxBox
    /\ wrapRes = null
    /\ parserIdle /\ combineIdle /\ rendererIdle /\ interactionIdle /\ appIdle /\ exporterIdle

Wrap ==
    /\ wrapRes = null
    /\ wrapRes' = wrap(wrapVal, wrapMax)
    /\ UNCHANGED <<wrapVal, wrapMax, parserVars, combineVars, rendererVars,
                   interactionVars, appVars, exporterVars>>

NextWrap == Wrap

SpecWrap == InitWrap /\ [][NextWrap]_vars


\* TopologyParser.parse on one text.
InitTopology ==
    /\ \/ \E n \in 1 .. MaxLines : topologyContent \in [1 .. n -> TopologyLines]
       \/ \E row \in ParticleRows :
              topologyContent = <<ReadmeTopology[1], text(row)>>
       \/ topologyContent = ReadmeTopology
    /\ configContent = <<>>
    /\ combineIdle /\ rendererIdle /\ wrapIdle /\ interactionIdle /\ appIdle /\ exporterIdle

ParseTopology ==
    /\ topology = null
    /\ topology' = parseTopology(topologyContent)
    /\ UNCHANGED <<parserVars, configuration, combinedData, console, rendererVars, wrapVars, interactionVars, appVars, exporterVars>>

NextTopology == ParseTopology

SpecTopology == InitTopology /\ [][NextTopology]_vars


\* ConfigurationParser.parse on one text.
InitConfiguration ==
    /\ \E n \in 1 .. MaxLines : configContent \in [1 .. n -> ConfigLines]
    /\ topologyContent = <<>>
    /\ combineIdle /\ rendererIdle /\ wrapIdle /\ interactionIdle /\ appIdle /\ exporterIdle

ParseConfiguration ==
    /\ configuration = null
    /\ configuration' = parseConfiguration(configContent)
    /\ UNCHANGED <<parserVars, topology, combinedData, console, rendererVars, wrapVars, interactionVars, appVars, exporterVars>>

NextConfiguration == ParseConfiguration

SpecConfiguration == InitConfiguration /\ [][NextConfiguration]_vars


\* Both parsers, then DataCombiner.combine on the two documents they
\* returned.
InitParsed ==
    /\ \/ \E n \in 1 .. 2 : topologyContent \in [1 .. n -> TopologyLines]
       \/ \E row \in ParticleRows :
              /\ Len(row) <= 7
              /\ topologyContent = <<ReadmeTopology[1], text(row)>>
       \/ topologyContent = ReadmeTopology
    /\ \E n \in 1 .. 2 : configContent \in [1 .. n -> ConfigLines]
    /\ combineIdle /\ rendererIdle /\ wrapIdle /\ interactionIdle /\ appIdle /\ exporterIdle

CombineParsed ==
    /\ topology /= null /\ ~raised(topology)
    /\ configuration /= null /\ ~raised(configuration)
    /\ combinedData = null
    /\ combinedData' = combineParsed(topology, configuration)
    /\ console' = IF /\ ~raised(combineParsed(topology, configuration))
                     /\ mismatchParsed(topology, configuration)
                  THEN Append(console, MismatchWarning)
                  ELSE console
    /\ UNCHANGED <<parserVars, topology, configuration, rendererVars, wrapVars, interactionVars, appVars, exporterVars>>

NextParsed == ParseTopology \/ ParseConfiguration \/ CombineParsed

SpecParsed == InitParsed /\ [][NextParsed]_vars


\* The application: file drops, example loads, clicks and keys.
InitApp ==
    parserIdle /\ combineIdle /\ rendererIdle /\ wrapIdle /\ interactionIdle /\ appIdle /\ exporterIdle

selection == [selectedParticles |-> selectedParticles,
              selectionMeshes |-> selectionMeshes,
              selectionInfo |-> selectionInfo]

\* The frame of a handler of InteractionManager that ends in selection
\* state s.
selected(s) ==
    /\ selectedParticles' = s.selectedParticles
    /\ selectionMeshes' = s.selectionMeshes
    /\ selectionInfo' = s.selectionInfo
    /\ UNCHANGED <<data, boxOffset, originalParticlePositions, nucleotideInstances,
                   bondMeshes, loadedOverOffset, multiSelectEnabled>>
    /\ UNCHANGED <<parserVars, combineVars, wrapVars, appVars, exporterVars>>

Drop ==
    /\ handleFilesCall.files = <<>>
    /\ \E files \in Drops : startHandleFiles(files)
    /\ UNCHANGED <<parserVars, wrapVars, interactionVars, exporterVars>>

ReadFile ==
    /\ handleFilesCall.files /= <<>>
    /\ handleFile(Head(handleFilesCall.files), Tail(handleFilesCall.files),
                  handleFilesCall.failed)
    /\ UNCHANGED <<parserVars, wrapVars, interactionVars, exporterVars>>

LoadExample ==
    /\ \E topologyText \in AppTopologies, configText \in AppConfigurations :
           loadExampleFiles(topologyText, configText)
    /\ UNCHANGED <<parserVars, wrapVars, interactionVars, handleFilesCall, exporterVars>>

Click ==
    \E particle \in pickable(nucleotideInstances) :
        selected(handleClick(selection, particle, multiSelectEnabled,
                             nucleotideInstances, combinedData))

ClearSelection == selected(clearSelection(selection, nucleotideInstances))

SelectByStrand ==
    \E strandId \in Strands :
        selected(selectByStrand(selection, strandId, data, nucleotideInstances,
                                combinedData))

\* keydown with ctrlKey or metaKey, keyup without them.
KeyDown ==
    /\ ~multiSelectEnabled
    /\ multiSelectEnabled' = TRUE
    /\ UNCHANGED <<parserVars, combineVars, rendererVars, wrapVars, appVars, exporterVars,
                   selectedParticles, selectionInfo>>

KeyUp ==
    /\ multiSelectEnabled
    /\ multiSelectEnabled' = FALSE
    /\ UNCHANGED <<parserVars, combineVars, rendererVars, wrapVars, appVars, exporterVars,
                   selectedParticles, selectionInfo>>

NextApp ==
    \/ Drop \/ ReadFile \/ LoadExample
    \/ Click \/ ClearSelection \/ SelectByStrand \/ KeyDown \/ KeyUp

SpecApp == InitApp /\ [][NextApp]_vars


\* The exporter: recordings started and stopped directly and by
\* recordVideo, with the events of the recorder and the timers.
InitExporter ==
    parserIdle /\ combineIdle /\ rendererIdle /\ wrapIdle /\ interactionIdle
    /\ appIdle /\ exporterIdle

exporter == [isRecording |-> isRecording,
             mediaRecorder |-> mediaRecorder,
             recordedChunks |-> recordedChunks,
             autoRotationObserver |-> autoRotationObserver,
             recorders |-> recorders,
             sceneObservers |-> sceneObservers]

\* The frame of a step that leaves the exporter as x.
exported(x) ==
    /\ isRecording' = x.isRecording
    /\ mediaRecorder' = x.mediaRecorder
    /\ recordedChunks' = x.recordedChunks
    /\ autoRotationObserver' = x.autoRotationObserver
    /\ recorders' = x.recorders
    /\ sceneObservers' = x.sceneObservers
    /\ UNCHANGED <<parserVars, combineVars, rendererVars, wrapVars,
                   interactionVars, appVars>>

\* The caller of stopRecording that is no recordVideo.
Direct == 0

StartRecording ==
    /\ Len(recorders) < MaxRecorders
    /\ \E autoRotate \in BOOLEAN, browser \in Browsers :
           exported(startRecording(exporter, [autoRotate |-> autoRotate], browser).x)
    /\ UNCHANGED <<downloads, videos>>

StopRecording ==
    /\ \E throws \in BOOLEAN :
           exported(stopRecording(exporter, Direct, throws).x)
    /\ UNCHANGED <<downloads, videos>>

\* ondataavailable with data of positive size.
DataAvailable ==
    /\ mediaRecorder /= null
    /\ recorders[mediaRecorder.id] = "recording"
    /\ Len(recordedChunks) < MaxChunks
    /\ exported([exporter EXCEPT !.recordedChunks = Append(@, mediaRecorder.id)])
    /\ UNCHANGED <<downloads, videos>>

\* The stop event of the recorder: the handler downloads the video and
\* resolves the promise of the stopRecording call that installed it.
StopEvent ==
    /\ mediaRecorder /= null
    /\ recorders[mediaRecorder.id] = "stopping"
    /\ exported(onstop(exporter))
    /\ downloads' = downloads + 1
    /\ videos' = IF mediaRecorder.onstop = Direct THEN videos
                 ELSE [videos EXCEPT ![mediaRecorder.onstop].pc = "resolved",
                                     ![mediaRecorder.onstop].stopped = "true"]

\* recordVideo up to its timer: started is what its startRecording
\* returned.
RecordVideo ==
    /\ Len(videos) < MaxVideos
    /\ Len(recorders) < MaxRecorders
    /\ \E browser \in Browsers :
           LET start == startRecording(exporter, [autoRotate |-> TRUE], browser)
           IN /\ exported(start.x)
              /\ videos' = Append(videos, [pc |-> "timer", started |-> start.returned,
                                           stopped |-> "none"])
    /\ UNCHANGED downloads

\* The timer of a recordVideo call: stopRecording, and resolve(true) once
\* its promise is fulfilled.
Timer ==
    /\ \E video \in 1 .. Len(videos), throws \in BOOLEAN :
           /\ videos[video].pc = "timer"
           /\ LET stop == stopRecording(exporter, video, throws)
              IN /\ exported(stop.x)
                 /\ videos' =
                        IF stop.returned = "false"
                        THEN [videos EXCEPT ![video].pc = "resolved",
                                            ![video].stopped = "false"]
                        ELSE IF stop.returned = "rejected"
                        THEN [videos EXCEPT ![video].pc = "rejected"]
                        ELSE [videos EXCEPT ![video].pc = "stopping"]
    /\ UNCHANGED downloads

NextExporter ==
    \/ StartRecording \/ StopRecording \/ DataAvailable \/ StopEvent
    \/ RecordVideo \/ Timer

SpecExporter == InitExporter /\ [][NextExporter]_vars

-----------------------------------------------------------------------------
(* Properties of DataCombiner.combine (SpecCombine) *)

samePair(a, b) ==
    \/ (a.from = b.from /\ a.to = b.to)
    \/ (a.from = b.to /\ a.to = b.from)

\* The connections of the merged particles, each with its declaring particle.
declaredConnections(graph) ==
    UNION { { [from |-> graph.particles[i].index,
               to |-> graph.particles[i].connections[j].particleIndex,
               row |-> i, at |-> j] :
                j \in 1 .. Len(graph.particles[i].connections) } :
            i \in 1 .. Len(graph.particles) }

\* C1: after combine, no two entries of the bond list have the same
\* unordered pair {from, to}, whichever particle declared the connection and
\* however often it was declared.
C1_NoDuplicateBonds ==
    combinedData /= null =>
        \A i, j \in 1 .. Len(combinedData.bonds) :
            i /= j => ~samePair(combinedData.bonds[i], combinedData.bonds[j])

\* A pair declared twice (a->b and b->a, or a->b repeated) has become a bond.
C1_Witness ==
    /\ combinedData /= null
    /\ \E c, d \in declaredConnections(combinedData) :
           /\ c /= d
           /\ samePair(c, d)
           /\ c.from /= c.to
           /\ \E k \in 1 .. Len(combinedData.bonds) : samePair(combinedData.bonds[k], c)

\* C2: after combine, both ends of every bond are indices of merged
\* particles: 0 <= from < count and 0 <= to < count.
C2_BondsReferenceParticles ==
    combinedData /= null =>
        \A k \in 1 .. Len(combinedData.bonds) :
            /\ 0 <= combinedData.bonds[k].from
            /\ combinedData.bonds[k].from < Len(combinedData.particles)
            /\ 0 <= combinedData.bonds[k].to
            /\ combinedData.bonds[k].to < Len(combinedData.particles)

\* The topology without the connections whose peer index is >= count.
RECURSIVE withoutPeersFrom(_, _)
withoutPeersFrom(connections, count) ==
    IF connections = <<>> THEN <<>>
    ELSE IF Head(connections).particleIndex >= count
         THEN withoutPeersFrom(Tail(connections), count)
         ELSE <<Head(connections)>> \o withoutPeersFrom(Tail(connections), count)

withoutConnectionsFrom(topo, count) ==
    [topo EXCEPT !.particles =
        [i \in 1 .. Len(topo.particles) |->
            [topo.particles[i] EXCEPT !.connections = withoutPeersFrom(@, count)]]]

\* C3: a connection whose peerIndex is >= count contributes no bond: no bond
\* ends at such an index, and the bond list is the one the same documents
\* give with those connections taken out.
C3_PeerBeyondCountDropped ==
    combinedData /= null =>
        LET count == Len(combinedData.particles)
        IN /\ \A k \in 1 .. Len(combinedData.bonds) : combinedData.bonds[k].to < count
           /\ combinedData.bonds =
                  combine(withoutConnectionsFrom(topology, count), configuration).bonds

\* A merged particle declares a peer >= count next to a connection that
\* does become a bond.
C3_Witness ==
    /\ combinedData /= null
    /\ \E c \in declaredConnections(combinedData) : c.to >= Len(combinedData.particles)
    /\ Len(combinedData.bonds) > 0

\* C17: combine yields count = min(topology particle rows, nucleotides)
\* particles; particle i carries the fields of topology particle i and of
\* nucleotide i, and particles[i].index = i; records beyond count do not
\* appear.
C17_MergedByPosition ==
    combinedData /= null =>
        /\ Len(combinedData.particles)
             = Min(Len(topology.particles), Len(configuration.nucleotides))
        /\ \A i \in 1 .. Len(combinedData.particles) :
               LET particle == combinedData.particles[i]
               IN /\ particle.index = i - 1
                  /\ particle.type = topology.particles[i].type
                  /\ particle.strand = topology.particles[i].strand
                  /\ particle.radius = topology.particles[i].radius
                  /\ particle.mass = topology.particles[i].mass
                  /\ particle.connections = topology.particles[i].connections
                  /\ particle.position = configuration.nucleotides[i].position
                  /\ particle.baseVector = configuration.nucleotides[i].baseVector
                  /\ particle.normalVector = configuration.nucleotides[i].normalVector
                  /\ particle.velocity = configuration.nucleotides[i].velocity
                  /\ particle.angularVelocity
                       = configuration.nucleotides[i].angularVelocity

\* Documents of different lengths, with at least two records merged.
C17_Witness ==
    /\ combinedData /= null
    /\ Len(combinedData.particles) >= 2
    /\ Len(topology.particles) > Len(configuration.nucleotides)

\* C18: the patches of a merged particle are, in the order of the particle
\* row's patch ids, one patch row per id that is the id of a patch row and
\* nothing for the other ids; no entry is null.
C18_PatchesResolvedInOrder ==
    combinedData /= null =>
        \A i \in 1 .. Len(combinedData.particles) :
            LET ids == topology.particles[i].patches
                known == { topology.patches[t].id : t \in 1 .. Len(topology.patches) }
                matched == SelectSeq(ids, LAMBDA id : id \in known)
                patches == combinedData.particles[i].patches
            IN /\ Len(patches) = Len(matched)
               /\ \A j \in 1 .. Len(patches) :
                      /\ patches[j] /= null
                      /\ patches[j].id = matched[j]
                      /\ \E t \in 1 .. Len(topology.patches) :
                             patches[j] = topology.patches[t]

\* Patch ids 1 7 0 resolved to the patch rows 1 and 0.
C18_Witness ==
    /\ combinedData /= null
    /\ \E i \in 1 .. Len(combinedData.particles) :
           /\ topology.particles[i].patches = <<1, 7, 0>>
           /\ Len(combinedData.particles[i].patches) = 2
           /\ combinedData.particles[i].patches[1].id = 1
           /\ combinedData.particles[i].patches[2].id = 0

\* Connection c is declared before connection d.
declaredBefore(c, d) == c.row < d.row \/ (c.row = d.row /\ c.at < d.at)

\* The declared connections with a peer below count whose pair no earlier
\* such connection has.
discovered(graph) ==
    { c \in declaredConnections(graph) :
        /\ c.to < Len(graph.particles)
        /\ \A d \in declaredConnections(graph) :
               (d.to < Len(graph.particles) /\ declaredBefore(d, c)) => ~samePair(c, d) }

\* C19: the bonds are in order of first discovery (particles by index,
\* connections as declared); a bond has from = the declaring particle of
\* the first connection of its pair, to = that connection's peer index,
\* and spring = the spring row with that connection's spring id, or null
\* when there is none.
C19_BondsInDiscoveryOrder ==
    combinedData /= null =>
        /\ Len(combinedData.bonds) = Cardinality(discovered(combinedData))
        /\ \A c \in discovered(combinedData) :
               LET k == 1 + Cardinality({ d \in discovered(combinedData) :
                                            declaredBefore(d, c) })
                   bond == combinedData.bonds[k]
                   springId == combinedData.particles[c.row].connections[c.at].springIndex
                   rows == { s \in 1 .. Len(topology.springs) :
                               topology.springs[s].id = springId }
               IN /\ bond.from = c.from
                  /\ bond.to = c.to
                  /\ IF rows = {} THEN bond.spring = null
                     ELSE \E s \in rows : bond.spring = topology.springs[s]

\* Two bonds, the second declared by a later particle, one with a spring
\* row and one without.
C19_Witness ==
    /\ combinedData /= null
    /\ Len(combinedData.bonds) = 2
    /\ combinedData.bonds[1].from < combinedData.bonds[2].from
    /\ combinedData.bonds[1].spring = null
    /\ combinedData.bonds[2].spring /= null

\* C20: the README topology combined with a configuration of four
\* 15-field rows and box 10 10 10 yields four particles and the two bonds
\* 0->1 and 1->2.
C20_ReadmeExample ==
    (/\ combinedData /= null
     /\ topologyContent = ReadmeTopology
     /\ configContent = ExampleConfiguration(4)) =>
        /\ Len(combinedData.particles) = 4
        /\ [k \in 1 .. Len(combinedData.bonds) |->
               <<combinedData.bonds[k].from, combinedData.bonds[k].to>>]
             = << <<0, 1>>, <<1, 2>> >>

C20_Witness ==
    /\ combinedData /= null
    /\ topologyContent = ReadmeTopology
    /\ configContent = ExampleConfiguration(4)
    /\ Len(topology.particles) = 4
    /\ Len(configuration.nucleotides) = 4
    /\ combinedData.metadata.box = Vector3(10, 10, 10)

\* C22: combine emits the mismatch diagnostic exactly when the header's
\* numParticles differs from the number of nucleotides, whatever the number
\* of particle rows, and returns the graph it returns without it.
C22_MismatchDiagnostic ==
    combinedData /= null =>
        /\ console = IF topology.header.numParticles = Len(configuration.nucleotides)
                     THEN <<>> ELSE <<MismatchWarning>>
        /\ combinedData =
               combine([topology EXCEPT
                           !.header.numParticles = Len(configuration.nucleotides)],
                       configuration)

\* The diagnostic for a topology whose particle rows are as many as the
\* nucleotides.
C22_Witness ==
    /\ combinedData /= null
    /\ console = <<MismatchWarning>>
    /\ Len(topology.particles) = Len(configuration.nucleotides)
    /\ Len(combinedData.particles) >= 2

-----------------------------------------------------------------------------
(* Properties of the periodic-boundary state of DNARenderer (Spec) *)

positions(instances) == [k \in 1 .. Len(instances) |-> instances[k].position]

\* The displayed position of particle i: the position of its instance.
displayedPosition(instances, i) == findInstance(instances, i).position

wrapped(canonical, offset, box) ==
    Vector3(wrap(canonical.x + offset.x, box.x),
            wrap(canonical.y + offset.y, box.y),
            wrap(canonical.z + offset.z, box.z))

outsideBox(v, box) ==
    \E axis \in Axes : box[axis] > 0 /\ (v[axis] < 0 \/ v[axis] >= box[axis])

\* C4: after a shiftParticles call on a loaded structure, the displayed
\* position of the instance of every particle i is wrap(canonical[i] + offset,
\* box) on every axis, for every assignment of particles to strands.
C4_DisplayedIsWrappedCanonical ==
    [][(ShiftParticles /\ data /= null) =>
          \A i \in 1 .. Len(data'.particles) :
              displayedPosition(nucleotideInstances', i - 1) =
                  wrapped(originalParticlePositions'[i], boxOffset', data'.metadata.box)
      ]_vars

\* C5: shiftParticles(axis, L) with L > 0 the box length of the axis leaves
\* every displayed position as it was before the call, from every reachable
\* state of a loaded structure.
C5_FullBoxShiftKeepsDisplay ==
    [][\A axis \in Axes :
          (/\ data /= null
           /\ data.metadata.box[axis] > 0
           /\ shiftParticles(axis, data.metadata.box[axis]))
          => positions(nucleotideInstances') = positions(nucleotideInstances)
      ]_vars

C7_ZeroBoxPassThrough ==
    [][(ShiftParticles /\ data /= null) =>
          \A k \in 1 .. Len(nucleotideInstances') : \A axis \in Axes :
              data.metadata.box[axis] = 0 =>
                  nucleotideInstances'[k].position[axis] =
                      Num(originalParticlePositions[k][axis] + boxOffset'[axis])
      ]_vars

\* C8: every loadData call, whatever shifts preceded it, leaves the offset
\* at the zero vector, retakes the snapshot from the new graph's particle
\* positions and displays every particle at its position in the new graph.
C8_LoadResetsOffset ==
    [][LoadData =>
          /\ boxOffset' = Zero
          /\ originalParticlePositions' = snapshot(data'.particles)
          /\ \A i \in 1 .. Len(data'.particles) :
                 displayedPosition(nucleotideInstances', i - 1) =
                     clone(data'.particles[i].position)
      ]_vars

\* A structure has just been loaded over a shifted one: the offset is zero
\* and a particle outside the box is displayed where the graph has it.
C8_Witness ==
    /\ data /= null
    /\ loadedOverOffset
    /\ boxOffset = Zero
    /\ \E i \in 1 .. Len(data.particles) :
           /\ outsideBox(data.particles[i].position, data.metadata.box)
           /\ displayedPosition(nucleotideInstances, i - 1) =
                  clone(data.particles[i].position)

\* The bonds both of whose ends are particles of the graph, in bond order.
renderedBonds(graph) ==
    SelectSeq(graph.bonds,
              LAMBDA b : /\ 0 <= b.from /\ b.from < Len(graph.particles)
                         /\ 0 <= b.to /\ b.to < Len(graph.particles))

\* C9: the segments of every bond line system, as rebuilt by each
\* shiftParticles call, join the positions currently displayed for the
\* particles bond.from and bond.to; none keeps an earlier or an un-offset
\* coordinate.
C9_BondsFollowInstances ==
    \A m \in 1 .. Len(bondMeshes) :
        LET lines == bondMeshes[m].lines
            bonds == renderedBonds(data)
        IN /\ Len(lines) = Len(bonds)
           /\ \A j \in 1 .. Len(lines) :
                  lines[j] = << displayedPosition(nucleotideInstances, bonds[j].from),
                                displayedPosition(nucleotideInstances, bonds[j].to) >>

\* Bonds have been rebuilt after a shift that moved an end of a segment away
\* from its canonical position.
C9_Witness ==
    /\ data /= null
    /\ boxOffset /= Zero
    /\ Len(bondMeshes) > 0
    /\ \E j \in 1 .. Len(renderedBonds(data)) :
           bondMeshes[1].lines[j][1] /=
               clone(data.particles[renderedBonds(data)[j].from + 1].position)

\* C10: shiftParticles calls change neither the structure graph nor the
\* canonical snapshot (both stay as loadData found them), and a shift on one
\* axis changes only that component of the offset.
C10_ShiftLeavesGraphAndSnapshot ==
    /\ [](data /= null =>
             /\ data \in RenderGraphs
             /\ originalParticlePositions = snapshot(data.particles))
    /\ [][\A axis \in AxisInputs, amount \in Amounts :
             shiftParticles(axis, amount) =>
                 /\ data' = data
                 /\ originalParticlePositions' = originalParticlePositions
                 /\ \A other \in Axes \ {axis} : boxOffset'[other] = boxOffset[other]
                 /\ axis \in Axes => boxOffset'[axis] = boxOffset[axis] + amount
         ]_vars

\* Shifts have moved a displayed particle away from its canonical position.
C10_Witness ==
    /\ data /= null
    /\ boxOffset /= Zero
    /\ \E i \in 1 .. Len(data.particles) :
           displayedPosition(nucleotideInstances, i - 1) /=
               clone(data.particles[i].position)

\* The display every shiftParticles call leaves at offset on the loaded
\* graph: the instances of the graph at the wrapped sums of snapshot and
\* offset.
displayAt(graph, offset) ==
    updateInstances(renderNucleotides(<<>>, graph.particles),
                    snapshot(graph.particles), offset, graph.metadata.box)

\* C30: the offset is zero while no structure is loaded, and for a loaded
\* structure the displayed positions are those that every sequence of
\* shiftParticles calls with the same per-axis totals leaves: they depend on
\* the totals only.
C30_DisplayDependsOnTotals ==
    /\ data = null => boxOffset = Zero
    /\ data /= null => nucleotideInstances = displayAt(data, boxOffset)

-----------------------------------------------------------------------------
(* Properties of TopologyParser.parse (SpecTopology) *)

\* Positions of the lines that are non-blank after trimming and do not
\* start with '#'.
headerCandidates(content) ==
    { i \in 1 .. Len(content) :
        /\ content[i].tokens /= <<>>
        /\ "hash" \notin DOMAIN content[i].tokens[1] }

firstCandidate(content) ==
    CHOOSE i \in headerCandidates(content) :
        \A j \in headerCandidates(content) : i <= j

\* The lines after the header that are not blank, not comments, and whose
\* first token is neither iP nor iS.
particleRowsOf(content) ==
    LET first == firstCandidate(content)
    IN SelectSeq([i \in 1 .. Len(content) - first |-> content[first + i].tokens],
                 LAMBDA tokens : /\ tokens /= <<>>
                                 /\ "hash" \notin DOMAIN tokens[1]
                                 /\ tokens[1] \notin {word("iP"), word("iS")})

\* C11: TopologyParser.parse raises exactly when no line of the text is
\* non-blank after trimming and free of a leading '#'; otherwise it returns
\* a document whose header is read from the first such line, whatever the
\* later rows contain.
C11_RaisesOnlyWithoutHeader ==
    topology /= null =>
        /\ raised(topology) <=> headerCandidates(topologyContent) = {}
        /\ ~raised(topology) =>
               LET parts == topologyContent[firstCandidate(topologyContent)].tokens
                   field(i) == IF i <= Len(parts)
                               THEN IF isNumeric(parts[i]) THEN Num(parts[i].num) ELSE NaN
                               ELSE undefined
               IN topology.header =
                      [numParticles |-> field(1), numStrands |-> field(2),
                       maxSpringsPerParticle |-> field(3),
                       repeatedPatchesPerParticle |-> field(4)]

\* A header found after a comment, followed by a row cut short.
C11_Witness ==
    /\ topology /= null /\ ~raised(topology)
    /\ firstCandidate(topologyContent) > 1
    /\ \E k \in 1 .. Len(topology.particles) :
           /\ Len(particleRowsOf(topologyContent)[k]) < 5
           /\ topology.particles[k].patches = <<>>

\* C12: the k-th particle row (counted from 0 among the lines after the
\* header that are not blank, not comments and not iP/iS rows) becomes the
\* particle with index k, whatever lines are interleaved and whatever the
\* header declares.
C12_ParticleIndexIsRowRank ==
    (topology /= null /\ ~raised(topology)) =>
        LET rows == particleRowsOf(topologyContent)
        IN /\ Len(topology.particles) = Len(rows)
           /\ \A k \in 1 .. Len(rows) :
                  /\ topology.particles[k].index = k - 1
                  /\ topology.particles[k].strand = parseInt(at(rows[k], 1))
                  /\ Len(topology.particles[k].patches)
                       + 2 * Len(topology.particles[k].connections) <= Len(rows[k])

\* Two particle rows separated by a patch row, under a header declaring
\* another number of particles.
C12_Witness ==
    /\ topology /= null /\ ~raised(topology)
    /\ Len(topology.particles) = 2
    /\ Len(topology.patches) > 0
    /\ topology.header.numParticles = Num(4)
    /\ \E i \in 2 .. Len(topologyContent) - 2 :
           /\ topologyContent[i] = ReadmeTopology[17]
           /\ topologyContent[i + 1] = ReadmeTopology[6]
           /\ topologyContent[i + 2] = ReadmeTopology[20]

\* C13: a particle row of n tokens declaring p patches, n >= 5 + p, yields
\* the p patch ids of tokens 5 .. 5+p-1 and floor((n-5-p)/2) connections,
\* the remaining tokens taken in consecutive pairs (peer index, spring id)
\* in order; a single token left over is dropped.
C13_PatchesThenConnectionPairs ==
    (topology /= null /\ ~raised(topology)) =>
        LET rows == particleRowsOf(topologyContent)
        IN \A k \in 1 .. Len(rows) :
               LET tokens == rows[k]
                   n == Len(tokens)
                   particle == topology.particles[k]
               IN (n >= 5 /\ isNumeric(tokens[5]) /\ tokens[5].num >= 0
                     /\ n >= 5 + tokens[5].num) =>
                      LET p == tokens[5].num
                      IN /\ Len(particle.patches) = p
                         /\ \A i \in 1 .. p :
                                particle.patches[i] = Num(tokens[5 + i].num)
                         /\ Len(particle.connections) = (n - 5 - p) \div 2
                         /\ \A j \in 1 .. Len(particle.connections) :
                                particle.connections[j] =
                                    [particleIndex |-> Num(tokens[5 + p + 2 * j - 1].num),
                                     springIndex |-> Num(tokens[5 + p + 2 * j].num)]

\* One patch id, one connection and one token left over.
C13_Witness ==
    /\ topology /= null /\ ~raised(topology)
    /\ \E k \in 1 .. Len(topology.particles) :
           /\ Len(topology.particles[k].patches) = 1
           /\ Len(topology.particles[k].connections) = 1
           /\ Len(particleRowsOf(topologyContent)[k]) = 9

-----------------------------------------------------------------------------
(* Properties of ConfigurationParser.parse (SpecConfiguration) *)

\* Line i of the text (counted from 1) exists and begins with the slot.
slotAt(content, i, slot) ==
    /\ i <= Len(content)
    /\ Len(content[i].tokens) >= 2
    /\ content[i].tokens[1] = word(slot)
    /\ content[i].tokens[2] = word("=")

\* Number of lines the header slots t, b, E take, tried in this order
\* against the line at the cursor.
afterSlotT(content) == IF slotAt(content, 1, "t") THEN 1 ELSE 0

afterSlotB(content) ==
    afterSlotT(content) + (IF slotAt(content, afterSlotT(content) + 1, "b") THEN 1 ELSE 0)

afterSlotE(content) ==
    afterSlotB(content) + (IF slotAt(content, afterSlotB(content) + 1, "E") THEN 1 ELSE 0)

\* The non-comment, non-blank lines after the header lines.
dataRowsOf(content) ==
    LET first == afterSlotE(content)
    IN SelectSeq([i \in 1 .. Len(content) - first |-> content[first + i].tokens],
                 LAMBDA tokens : tokens /= <<>> /\ "hash" \notin DOMAIN tokens[1])

numbersOf(tokens, from) == Vector3(Num(tokens[from].num), Num(tokens[from + 1].num),
                                   Num(tokens[from + 2].num))

\* C14: ConfigurationParser.parse returns a document, without raising, for
\* every input text.
C14_ConfigurationParseNeverRaises ==
    configuration /= null => ~raised(configuration)

\* C15: a data line with fewer than 15 fields is skipped without an error
\* and takes no index: the nucleotides are the data lines with at least 15
\* fields, in file order, and nucleotides[k].index = k.
C15_ShortRowsSkipped ==
    configuration /= null =>
        LET rows == dataRowsOf(configContent)
            full == SelectSeq(rows, LAMBDA tokens : Len(tokens) >= 15)
        IN /\ (\E r \in 1 .. Len(rows) : Len(rows[r]) < 15) => ~raised(configuration)
           /\ ~raised(configuration) =>
                  /\ Len(configuration.nucleotides) = Len(full)
                  /\ \A k \in 1 .. Len(full) :
                         /\ configuration.nucleotides[k].index = k - 1
                         /\ configuration.nucleotides[k].position = numbersOf(full[k], 1)
                         /\ configuration.nucleotides[k].angularVelocity
                                = numbersOf(full[k], 13)

\* A short row between two full rows.
C15_Witness ==
    /\ configuration /= null /\ ~raised(configuration)
    /\ Len(configuration.nucleotides) = 2
    /\ configuration.nucleotides[1].position /= configuration.nucleotides[2].position
    /\ LET rows == dataRowsOf(configContent)
       IN Len(rows) = 3 /\ Len(rows[2]) < 15

\* C16: the header slots t, b, E are tried in this order against the line
\* at the cursor; a slot that does not match keeps its default (timestep 0,
\* box 0 0 0, energy 0 0 0) and does not advance.  A text whose first line
\* is a b line yields timestep 0 and the box of that line; a text with the
\* E line before the b line yields the energy and the default box.
C16_HeaderSlotsInOrder ==
    configuration /= null =>
        /\ slotAt(configContent, 1, "b") =>
               /\ ~raised(configuration)
               /\ configuration.timestep = Num(0)
               /\ configuration.box = numbersOf(configContent[1].tokens, 3)
        /\ (slotAt(configContent, 1, "E") /\ slotAt(configContent, 2, "b")) =>
               /\ ~raised(configuration)
               /\ configuration.timestep = Num(0)
               /\ configuration.energy =
                      [total |-> Num(configContent[1].tokens[3].num),
                       potential |-> Num(configContent[1].tokens[4].num),
                       kinetic |-> Num(configContent[1].tokens[5].num)]
               /\ configuration.box = Vector3(Num(0), Num(0), Num(0))
        /\ ~raised(configuration) =>
               /\ configuration.timestep =
                      (IF slotAt(configContent, 1, "t")
                       THEN Num(configContent[1].tokens[3].num) ELSE Num(0))
               /\ configuration.box =
                      (IF afterSlotB(configContent) > afterSlotT(configContent)
                       THEN numbersOf(configContent[afterSlotB(configContent)].tokens, 3)
                       ELSE Vector3(Num(0), Num(0), Num(0)))
               /\ (afterSlotE(configContent) = afterSlotB(configContent)) =>
                      configuration.energy = defaultConfig.energy

-----------------------------------------------------------------------------
(* Properties of the parsers followed by DataCombiner.combine (SpecParsed) *)

\* C21: combine does not raise on any pair of documents the two parsers
\* returned; when the topology has no particle row or the configuration no
\* nucleotide it returns no particle and no bond, with the metadata of the
\* two documents.
C21_CombineNeverRaises ==
    combinedData /= null =>
        /\ ~raised(combinedData)
        /\ (Len(topology.particles) = 0 \/ Len(configuration.nucleotides) = 0) =>
               /\ combinedData.particles = <<>>
               /\ combinedData.bonds = <<>>
               /\ combinedData.metadata =
                      [timestep |-> configuration.timestep,
                       box |-> configuration.box,
                       energy |-> configuration.energy,
                       numStrands |-> topology.header.numStrands]

\* Particle rows combined with a configuration that has no nucleotide.
C21_Witness ==
    /\ combinedData /= null
    /\ Len(topology.particles) > 0
    /\ Len(configuration.nucleotides) = 0
    /\ combinedData.metadata.box /= defaultConfig.box

-----------------------------------------------------------------------------
(* Properties of the application (SpecApp) *)

\* C23: when the topology parse of a dropped file fails, that handleFiles
\* call performs no visualize and leaves the combined data and the renderer
\* as they were.
C23_FailedTopologyAbortsLoad ==
    [][ ( /\ handleFilesCall' /= handleFilesCall
          /\ handleFilesCall'.files = <<>>
          /\ "psp" \in handleFilesCall'.failed )
        => ( /\ ~handleFilesCall'.visualized
             /\ UNCHANGED <<rendererVars, combinedData>> ) ]_vars

\* C24: combine is called only with two parsed documents, and as long as
\* one of the two documents is missing nothing is combined or loaded.
C24_CombineOnlyWithBothDocuments ==
    /\ lastCombine /= null => lastCombine.topology /\ lastCombine.configuration
    /\ (topology = null \/ configuration = null)
       => lastCombine = null /\ combinedData = null /\ data = null

\* A drop that ended in visualize.
C24_Witness ==
    handleFilesCall.visualized /\ lastCombine /= null /\ data /= null

\* C25: the selected indices are the keys of the highlight meshes.
C25_SelectionMatchesMeshes == selectedParticles = selectionMeshes

\* C26: every selected index is below the number of particles of the loaded
\* graph, and the selection panel was filled without a missing particle.
C26_SelectedIndicesInRange ==
    /\ \A index \in selectedParticles : data /= null /\ index < Len(data.particles)
    /\ ~raised(selectionInfo)

\* C27: a click without multi-select leaves exactly the picked particle
\* selected, or nothing when nothing is picked; a click with multi-select
\* toggles the picked particle only and changes nothing when nothing is
\* picked.
C27_HandleClick ==
    \A particle \in pickable(nucleotideInstances) :
        LET after == handleClick(selection, particle, multiSelectEnabled,
                                 nucleotideInstances, combinedData).selectedParticles
        IN IF ~multiSelectEnabled
           THEN after = (IF particle = null THEN {} ELSE {particle.index})
           ELSE IF particle = null
           THEN after = selectedParticles
           ELSE IF particle.index \in selectedParticles
           THEN after = selectedParticles \ {particle.index}
           ELSE after = selectedParticles \cup {particle.index}

\* Two particles selected by clicks with multi-select.
C27_Witness == multiSelectEnabled /\ Cardinality(selectedParticles) = 2

-----------------------------------------------------------------------------
(* Properties of the exporter (SpecExporter) *)

\* C28: startRecording while recording returns false and leaves
\* mediaRecorder and recordedChunks as they are; stopRecording while not
\* recording returns false and changes nothing; the stop event that
\* completes a stopRecording leaves isRecording false, mediaRecorder null,
\* recordedChunks empty and no auto-rotation observer; at most one
\* recorder is active at any time, and it is the one of mediaRecorder.
C28_RecorderLifecycle ==
    /\ [](/\ \A options \in [autoRotate : BOOLEAN], browser \in Browsers :
               isRecording =>
                   LET start == startRecording(exporter, options, browser)
                   IN /\ start.returned = FALSE
                      /\ start.x.mediaRecorder = mediaRecorder
                      /\ start.x.recordedChunks = recordedChunks
          /\ \A throws \in BOOLEAN :
               ~isRecording =>
                   stopRecording(exporter, Direct, throws) =
                       [x |-> exporter, returned |-> "false"]
          /\ \A id \in 1 .. Len(recorders) :
               recorders[id] /= "inactive" =>
                   mediaRecorder /= null /\ mediaRecorder.id = id)
    /\ [][downloads' /= downloads =>
              /\ ~isRecording'
              /\ mediaRecorder' = null
              /\ recordedChunks' = <<>>
              /\ autoRotationObserver' = null
              /\ sceneObservers' = 0]_vars

\* A recording was stopped and downloaded, and a second one is running.
C28_Witness == downloads > 0 /\ isRecording /\ Len(recorders) = 2

\* C29: a recordVideo call that resolved true started its recording and
\* stopped it with a download.
C29_RecordVideoReportsOutcome ==
    \A video \in 1 .. Len(videos) :
        videos[video].pc = "resolved" =>
            videos[video].started /\ videos[video].stopped = "true"


=============================================================================
